---- MODULE Spec2Model ----
(***************************************************************************)
(* Model of the CareerPath AI agent orchestrator                           *)
(* (backend/lambda/agent-orchestrator/handler.py).                         *)
(*                                                                         *)
(* Text is modelled as a sequence of lexemes.  A lexeme is a triple        *)
(* <<kind, key, val>>:                                                     *)
(*   "{" "}" ","   the JSON punctuation                                     *)
(*   "key"         a member name with its colon,  "k":                      *)
(*   "lit"         a scalar literal (string, number, true, false, null)     *)
(*   "pair"        a member name with a scalar value,  "k": v               *)
(*   "w"           a word of prose (never valid inside JSON)                *)
(* A parsed JSON value is the set of its leaves <<path, scalar>>; the       *)
(* empty object is the single leaf <<<<>>, "{}">>.                          *)
(***************************************************************************)
EXTENDS Integers, Sequences, FiniteSets, TLC

LB == <<"{", "", "">>
RB == <<"}", "", "">>
COMMA == <<",", "", "">>
W == <<"w", "", "">>
Key(k) == <<"key", k, "">>
Lit(v) == <<"lit", "", v>>
Pair(k, v) == <<"pair", k, v>>

EmptyObj == "{}"
Scalar(v) == {<<<<>>, v>>}
EmptyDict == Scalar(EmptyObj)

\* the value val stored under member name k
Prefix(k, val) == {<<(<<k>> \o e[1]), e[2]>> : e \in val}

\* a Python dict assignment d[k] = val: a repeated name replaces the earlier one
SetItem(obj, k, val) ==
  {e \in obj : e[1] # <<>> /\ Head(e[1]) # k} \cup Prefix(k, val)

IsDict(val) == \A e \in val : e[1] # <<>> \/ e[2] = EmptyObj

\* dict.get(k, default)
\* dict.get with its default argument dropped: None for a missing key
Get_None(obj, k, default) ==
  LET sub == {<<Tail(e[1]), e[2]>> : e \in {x \in obj : x[1] # <<>> /\ Head(x[1]) = k}}
  IN IF sub = {} THEN Scalar("null") ELSE sub

Get(obj, k, default) ==
  LET sub == {<<Tail(e[1]), e[2]>> : e \in {x \in obj : x[1] # <<>> /\ Head(x[1]) = k}}
  IN IF sub = {} THEN default ELSE sub

HasKey(obj, k) == \E e \in obj : e[1] # <<>> /\ Head(e[1]) = k

\* a test for None in place of truthiness
Truthy_NotNone(val) == val # Scalar("null")

\* Python truthiness of a parsed JSON value
Truthy(val) ==
  val \notin {Scalar(""), Scalar("false"), Scalar("null"), Scalar("0"), EmptyDict}

ParseError == [ok |-> FALSE, val |-> {}, next |-> 0]

RECURSIVE ParseValue(_, _), ParseMembers(_, _, _)

\* json decoder: one value starting at lexeme i
ParseValue(t, i) ==
  IF i > Len(t) THEN ParseError
  ELSE IF t[i][1] = "lit" THEN [ok |-> TRUE, val |-> Scalar(t[i][3]), next |-> i + 1]
  ELSE IF t[i] = LB THEN
    IF i + 1 <= Len(t) /\ t[i + 1] = RB
    THEN [ok |-> TRUE, val |-> EmptyDict, next |-> i + 2]
    ELSE ParseMembers(t, i + 1, {})
  ELSE ParseError

\* json decoder: the members of an object from lexeme i on, acc is the dict so far
ParseMembers(t, i, acc) ==
  IF i > Len(t) THEN ParseError
  ELSE
    LET m == IF t[i][1] = "pair"
             THEN [ok |-> TRUE, val |-> Scalar(t[i][3]), next |-> i + 1]
             ELSE IF t[i][1] = "key" THEN ParseValue(t, i + 1)
             ELSE ParseError
    IN IF ~m.ok \/ m.next > Len(t) THEN ParseError
       ELSE LET acc2 == SetItem(acc, t[i][2], m.val)
            IN IF t[m.next] = RB THEN [ok |-> TRUE, val |-> acc2, next |-> m.next + 1]
               ELSE IF t[m.next] = COMMA THEN ParseMembers(t, m.next + 1, acc2)
               ELSE ParseError

\* json.loads: the whole text must be exactly one value
JsonLoads(t) ==
  LET r == ParseValue(t, 1)
  IN IF r.ok /\ r.next = Len(t) + 1 THEN [ok |-> TRUE, val |-> r.val]
     ELSE [ok |-> FALSE, val |-> {}]

NoMatch == <<>>

\* the lazy pattern \{[\s\S]*?\}: from the first "{" to the first "}" after it
RegexSearch_Lazy(response) ==
  LET opens == {i \in 1..Len(response) : response[i] = LB}
  IN IF opens = {} THEN NoMatch
     ELSE LET first == CHOOSE i \in opens : \A j \in opens : i <= j
              closes == {i \in 1..Len(response) : response[i] = RB /\ i > first}
          IN IF closes = {} THEN NoMatch
             ELSE LET last == CHOOSE i \in closes : \A j \in closes : i <= j
                  IN SubSeq(response, first, last)

\* re.search(r'\{[\s\S]*\}', response).group(): from the first "{" to the last "}"
RegexSearch(response) ==
  LET opens == {i \in 1..Len(response) : response[i] = LB}
  IN IF opens = {} THEN NoMatch
     ELSE LET first == CHOOSE i \in opens : \A j \in opens : i <= j
              closes == {i \in 1..Len(response) : response[i] = RB /\ i > first}
          IN IF closes = {} THEN NoMatch
             ELSE LET last == CHOOSE i \in closes : \A j \in closes : j <= i
                  IN SubSeq(response, first, last)


(***************************************************************************)
(* Structured-output extraction, as inlined in analyze_intent and          *)
(* generate_career_roadmap: try: search, loads; except: pass; fallback.    *)
(* A result is [raised, val]; raised is an exception leaving the function. *)
(***************************************************************************)

\* the body of the try block: exc is an exception raised inside it
TryExtract(response) ==
  LET m == RegexSearch(response)
  IN IF m = NoMatch THEN [exc |-> FALSE, returned |-> FALSE, val |-> {}]
     ELSE LET r == JsonLoads(m)
          IN IF r.ok THEN [exc |-> FALSE, returned |-> TRUE, val |-> r.val]
             ELSE [exc |-> TRUE, returned |-> FALSE, val |-> {}]

\* a fallback that turns retrieval off
IntentFallback_NoRetrieval(user_message) ==
  Prefix("intent", Scalar("GENERAL_CHAT")) \cup Prefix("confidence", Scalar("0.5"))
    \cup Prefix("requires_retrieval", Scalar("false"))
    \cup Prefix("retrieval_query", user_message)

\* the fallback of analyze_intent
IntentFallback(user_message) ==
  Prefix("intent", Scalar("GENERAL_CHAT")) \cup Prefix("confidence", Scalar("0.5"))
    \cup Prefix("requires_retrieval", Scalar("true"))
    \cup Prefix("retrieval_query", user_message)

\* an except clause that does not catch the decoder's error
analyze_intent_NoExcept(response, user_message) ==
  LET t == TryExtract(response)
  IN IF ~t.exc /\ t.returned THEN [raised |-> FALSE, val |-> t.val]
     ELSE [raised |-> t.exc, val |-> IntentFallback(user_message)]

\* analyze_intent from the return of its generation call, lines 242-256
analyze_intent(response, user_message) ==
  LET t == TryExtract(response)
  IN IF ~t.exc /\ t.returned THEN [raised |-> FALSE, val |-> t.val]
     ELSE [raised |-> FALSE, val |-> IntentFallback(user_message)]

\* stands in a value for the raw text kept beside it
RawRef == "<raw>"

RoadmapFallback(response) ==
  [obj |-> Prefix("response", Scalar(RawRef)) \cup Prefix("type", Scalar("text")),
   raw |-> response]

\* an except clause that lets the decoder's error leave generate_career_roadmap
generate_career_roadmap_NoExcept(response) ==
  LET t == TryExtract(response)
  IN IF ~t.exc /\ t.returned THEN [raised |-> FALSE, val |-> [obj |-> t.val, raw |-> <<>>]]
     ELSE [raised |-> t.exc, val |-> RoadmapFallback(response)]

\* generate_career_roadmap from the return of its generation call, lines 275-286
generate_career_roadmap(response) ==
  LET t == TryExtract(response)
  IN IF ~t.exc /\ t.returned THEN [raised |-> FALSE, val |-> [obj |-> t.val, raw |-> <<>>]]
     ELSE [raised |-> FALSE, val |-> RoadmapFallback(response)]


(***************************************************************************)
(* Retrieval client                                                        *)
(***************************************************************************)
PreviewLen == 200
MaxContentLen == 201
MaxPassages == 4
TopK == 10

\* a passage text of n characters
Content(n) == [i \in 1..n |-> i % 7]

\* items of the knowledge base's retrievalResults; a field may be missing
RawItems ==
  { [hasText |-> TRUE, text |-> Content(MaxContentLen), hasScore |-> TRUE, score |-> 50,
     hasUri |-> TRUE, uri |-> "s3://kb/jobs.json"],
    [hasText |-> TRUE, text |-> Content(3), hasScore |-> TRUE, score |-> 90,
     hasUri |-> TRUE, uri |-> "s3://kb/skills.json"],
    [hasText |-> FALSE, text |-> <<>>, hasScore |-> FALSE, score |-> 0,
     hasUri |-> FALSE, uri |-> ""] }

RetrievalResults == UNION {[1..n -> RawItems] : n \in 0..MaxPassages}

\* retrieve_context, the loop over response.get('retrievalResults', [])
Passage(item) ==
  [content |-> IF item.hasText THEN item.text ELSE <<>>,
   score |-> IF item.hasScore THEN item.score ELSE 0,
   source |-> IF item.hasUri THEN item.uri ELSE "Unknown"]

\* a sentinel passage in place of [] when the call fails
retrieve_context_Sentinel(reply) ==
  IF reply.ok THEN [i \in 1..Len(reply.items) |-> Passage(reply.items[i])]
  ELSE <<[content |-> Content(3), score |-> 0, source |-> "System"]>>

\* retrieve_context: the passages on success, [] on any exception
retrieve_context(reply) ==
  IF reply.ok THEN [i \in 1..Len(reply.items) |-> Passage(reply.items[i])]
  ELSE <<>>

\* the knowledge base rejects a query that is not a non-empty text
RetrievalReplies(query) ==
  {[ok |-> FALSE, items |-> <<>>]} \cup
  IF query \in {Scalar("null"), Scalar(""), EmptyDict} THEN {}
  ELSE {[ok |-> TRUE, items |-> r] : r \in RetrievalResults}

(***************************************************************************)
(* Generation client                                                       *)
(***************************************************************************)
GenerationErrors == {"ThrottlingException", "AccessDeniedException"}

\* texts the generation model may return
ModelTexts ==
  { <<W, W>>,
    <<LB, RB>>,
    <<W, LB, Pair("intent", "ROADMAP"), RB, W>>,
    <<LB, Pair("intent", "CAREER_ADVICE"), COMMA, Pair("requires_retrieval", "false"), RB>>,
    <<LB, Pair("intent", "SKILL_GAP"), COMMA, Pair("requires_retrieval", "true"), COMMA,
      Pair("retrieval_query", "skills for staff engineer"), RB>>,
    <<LB, Pair("intent", "BANANA"), RB>>,
    <<LB, Pair("intent", "JOB_SEARCH"), COMMA, Pair("retrieval_query", ""), RB>>,
    <<LB, Pair("intent", "LEARNING_PATH"), COMMA, Pair("retrieval_query", "null"), RB>>,
    <<LB, Key("explainability"), LB, Pair("reasoning_steps", "s1"), RB, RB>>,
    <<LB, Key("explainability"), LB, RB, COMMA, Pair("confidence_score", "0.9"), RB>>,
    <<W, LB, W, RB, LB, Pair("intent", "ROADMAP"), RB>>,
    <<LB, Pair("intent", "ROADMAP"), COMMA, RB>> }

GenerationReplies ==
  {[ok |-> TRUE, text |-> t, err |-> ""] : t \in ModelTexts} \cup
  {[ok |-> FALSE, text |-> <<>>, err |-> e] : e \in GenerationErrors}

GENERATION_MODEL_ID == "amazon.nova-pro-v1:0"
KNOWLEDGE_BASE_ID == "PLACEHOLDER_KB_ID"

(***************************************************************************)
(* Requests                                                                *)
(***************************************************************************)
\* request bodies: bodyKind "absent" is an event without 'body', "null" one
\* whose body is None
BodyTexts ==
  { <<LB, RB>>,
    <<LB, Pair("message", ""), RB>>,
    <<LB, Pair("message", "null"), COMMA, Pair("type", "roadmap"), RB>>,
    <<LB, Pair("type", "roadmap"), RB>>,
    <<LB, Pair("message", "hi"), RB>>,
    <<LB, Pair("message", "hi"), COMMA, Pair("type", "chat"), RB>>,
    <<LB, Pair("message", "plan my career"), COMMA, Pair("type", "roadmap"), RB>>,
    <<LB, Pair("message", "hi"), COMMA, Pair("type", "skills"), COMMA,
      Key("user_profile"), LB, Pair("career_level", "Senior"), RB, RB>>,
    <<LB, Pair("message", "hi"), COMMA, Pair("user_profile", "null"), RB>>,
    <<LB, Pair("message", "hi"), COMMA, Pair("type", "roadmap"), COMMA,
      Pair("user_profile", "resume text"), RB>>,
    <<LB, Pair("message", "hi"), COMMA, Key("user_profile"), LB, Pair("skills", "python"), RB, RB>>,
    <<Lit("null")>>,
    <<W, W>>,
    <<LB, Pair("message", "hi")>> }

Events ==
  {[httpMethod |-> m, bodyKind |-> "text", body |-> b] : m \in {"POST", "OPTIONS"}, b \in BodyTexts}
  \cup {[httpMethod |-> "POST", bodyKind |-> k, body |-> <<>>] : k \in {"absent", "null"}}

Clock == {1, 2}

VARIABLES
  pc,                \* where lambda_handler stands
  event,             \* the event it was invoked with
  user_message, user_profile, request_type,
  intent_analysis, retrieved_context,
  genCalls,          \* calls made to bedrock_runtime.invoke_model, in order
  retrCalls,         \* calls made to bedrock_agent_runtime.retrieve, in order
  invoked,           \* generator functions entered, in order
  failure,           \* what went wrong: the stage whose generation call failed
                     \* and its message, whether the retrieval call failed
  kbItems,           \* the retrievalResults of the last retrieval reply
  genLog,            \* replies received from bedrock_runtime.invoke_model, in order
  retrLog,           \* outcomes (ok or not) of the retrieval calls, in order
  response,          \* what lambda_handler returned
  xtext,             \* a model output handed to the extraction step alone
  xspan,             \* where a JSON object sits in xtext, <<0, 0>> if none is marked
  xresult,           \* what the extraction step made of xtext
  pin,               \* the arguments a generator is called with, for its prompt alone
  prompt,            \* the prompt the generator built from pin
  rag,               \* one invocation of the rag-retriever's lambda_handler
  frames,            \* the local variables of each of two concurrent invocations
  module             \* the module-level names the invocations share

vars == <<pc, event, user_message, user_profile, request_type, intent_analysis,
          retrieved_context, genCalls, retrCalls, invoked, failure, kbItems, response,
          genLog, retrLog, xtext, xspan, xresult, pin, prompt, rag, frames, module>>

xvars == <<xtext, xspan, xresult>>

pvars == <<pin, prompt>>

rvars == <<rag>>

cvars == <<frames, module>>

\* the variables of lambda_handler other than pc
hvars == <<event, user_message, user_profile, request_type, intent_analysis,
           retrieved_context, genCalls, retrCalls, invoked, failure, kbItems, response,
           genLog, retrLog>>

NoResponse == [statusCode |-> 0]
NoFailure == [gen |-> "", err |-> "", retr |-> FALSE]
NoResult == [stage |-> "", raised |-> FALSE, val |-> [obj |-> {}, raw |-> <<>>]]
NoInput ==
  [profile |-> EmptyDict, query |-> Scalar(""), ctx |-> <<>>, historyGiven |-> FALSE,
   history |-> <<>>]
NoPrompt == [template |-> ""]

\* lines 19-20: the configuration read at import
ModuleState ==
  [GENERATION_MODEL_ID |-> GENERATION_MODEL_ID, KNOWLEDGE_BASE_ID |-> KNOWLEDGE_BASE_ID]

NoRag == [pc |-> "off"]

\* no prompt is being built on its own, the rag-retriever is not invoked and
\* no second invocation is in progress
PromptQuiet ==
  /\ pin = NoInput
  /\ prompt = NoPrompt
  /\ rag = NoRag
  /\ frames = <<>>
  /\ module = ModuleState

Init ==
  /\ pc = "idle"
  /\ event \in Events
  /\ user_message = Scalar("")
  /\ user_profile = EmptyDict
  /\ request_type = Scalar("chat")
  /\ intent_analysis = {}
  /\ retrieved_context = <<>>
  /\ genCalls = <<>>
  /\ retrCalls = <<>>
  /\ invoked = <<>>
  /\ failure = NoFailure
  /\ kbItems = <<>>
  /\ genLog = <<>>
  /\ retrLog = <<>>
  /\ response = NoResponse
  /\ xtext = <<>>
  /\ xspan = <<0, 0>>
  /\ xresult = NoResult
  /\ PromptQuiet

Preflight ==
  [statusCode |-> 200, headers |-> "cors-preflight", body |-> [empty |-> TRUE]]

\* the 400 returned when the message is missing
MissingMessage ==
  [statusCode |-> 400, headers |-> "json", body |-> [error |-> "Missing message"]]

\* a 500 that also reports the intent computed before the failure
Failed_Leaky(e) ==
  [statusCode |-> 500, headers |-> "json",
   body |-> [error |-> e, message |-> "Agent orchestration failed",
             intent |-> intent_analysis]]

\* a 500 that hides the exception's message
Failed_Opaque(e) ==
  [statusCode |-> 500, headers |-> "json",
   body |-> [error |-> "Internal server error", message |-> "Agent orchestration failed"]]

\* an except arm that answers as the validation step does
Failed_BadRequest(e) ==
  [statusCode |-> 400, headers |-> "json", body |-> [error |-> e]]

\* the except arm of lambda_handler
Failed(e) ==
  [statusCode |-> 500, headers |-> "json",
   body |-> [error |-> e, message |-> "Agent orchestration failed"]]

\* a preview of every passage, not of the first 3
Sources_All(ctx) ==
  [i \in 1..Len(ctx) |->
     [content |-> SubSeq(ctx[i].content, 1, IF Len(ctx[i].content) < PreviewLen
                                            THEN Len(ctx[i].content) ELSE PreviewLen),
      source |-> ctx[i].source]]

\* the source preview: first 3 passages, content cut to 200 characters
Sources(ctx) ==
  [i \in 1..(IF Len(ctx) < 3 THEN Len(ctx) ELSE 3) |->
     [content |-> SubSeq(ctx[i].content, 1, IF Len(ctx[i].content) < PreviewLen
                                            THEN Len(ctx[i].content) ELSE PreviewLen),
      source |-> ctx[i].source]]

\* the 200 envelope
\* the envelope's type taken from the shape of the result, not from the branch
Succeeded_ShapeType(response_content, response_type, intent, ctx, now) ==
  [statusCode |-> 200, headers |-> "json",
   body |-> [response |-> response_content,
             type |-> IF Get(response_content.obj, "type", Scalar("")) = Scalar("text")
                      THEN "text" ELSE response_type,
             intent |-> intent,
             sources |-> Sources(ctx),
             metadata |-> [model |-> GENERATION_MODEL_ID,
                           knowledge_base |-> KNOWLEDGE_BASE_ID, timestamp |-> now]]]

Succeeded(response_content, response_type, intent, ctx, now) ==
  [statusCode |-> 200, headers |-> "json",
   body |-> [response |-> response_content, type |-> response_type, intent |-> intent,
             sources |-> Sources(ctx),
             metadata |-> [model |-> GENERATION_MODEL_ID,
                           knowledge_base |-> KNOWLEDGE_BASE_ID, timestamp |-> now]]]

\* generate_conversational_response raises before its generation call when
\* the profile is not a mapping of the expected shape
ConversationalRaises(profile) ==
  \/ ~IsDict(profile)
  \/ ~IsDict(Get(profile, "skills", EmptyDict))
  \/ LET technical == Get(Get(profile, "skills", EmptyDict), "technical", Scalar("[]"))
     IN IsDict(technical) \/ technical \in {Scalar("null"), Scalar("true"), Scalar("false")}

\* a branch on the request type alone
WantsRoadmap_TypeOnly(rtype, intent) == rtype = Scalar("roadmap")

\* the branch condition of step 3
WantsRoadmap(rtype, intent) ==
  rtype = Scalar("roadmap") \/ Get(intent, "intent", Scalar("null")) = Scalar("ROADMAP")

\* step 3 of lambda_handler up to the generator's generation call
Step3(intent, profile, rtype) ==
  IF WantsRoadmap(rtype, intent)
  THEN /\ invoked' = Append(invoked, "roadmap")
       /\ genCalls' = Append(genCalls, [stage |-> "roadmap", max_tokens |-> 4096])
       /\ pc' = "await_generate"
       /\ response' = response
  ELSE /\ invoked' = Append(invoked, "conversational")
       /\ IF ConversationalRaises(profile)
          THEN /\ genCalls' = genCalls
               /\ pc' = "done"
               /\ response' = Failed("AttributeError")
          ELSE /\ genCalls' = Append(genCalls, [stage |-> "conversational", max_tokens |-> 2048])
               /\ pc' = "await_generate"
               /\ response' = response

\* lambda_handler from entry to the generation call of analyze_intent
Receive ==
  /\ pc = "idle"
  /\ LET text == IF event.bodyKind = "absent" THEN <<LB, RB>> ELSE event.body
         body == JsonLoads(text)
         message == Get(body.val, "message", Scalar(""))
     IN IF event.httpMethod = "OPTIONS"
        THEN /\ response' = Preflight
             /\ pc' = "done"
             /\ UNCHANGED <<user_message, user_profile, request_type, genCalls>>
        ELSE IF event.bodyKind = "null"
        THEN /\ response' = Failed("TypeError")
             /\ pc' = "done"
             /\ UNCHANGED <<user_message, user_profile, request_type, genCalls>>
        ELSE IF ~body.ok
        THEN /\ response' = Failed("JSONDecodeError")
             /\ pc' = "done"
             /\ UNCHANGED <<user_message, user_profile, request_type, genCalls>>
        ELSE IF ~IsDict(body.val)
        THEN /\ response' = Failed("AttributeError")
             /\ pc' = "done"
             /\ UNCHANGED <<user_message, user_profile, request_type, genCalls>>
        ELSE /\ user_message' = message
             /\ user_profile' = Get(body.val, "user_profile", EmptyDict)
             /\ request_type' = Get(body.val, "type", Scalar("chat"))
             /\ IF ~Truthy(message)
                THEN /\ response' = MissingMessage
                     /\ pc' = "done"
                     /\ genCalls' = genCalls
                ELSE /\ genCalls' = Append(genCalls, [stage |-> "intent", max_tokens |-> 512])
                     /\ pc' = "await_intent"
                     /\ response' = response
  /\ UNCHANGED <<event, intent_analysis, retrieved_context, retrCalls, invoked, failure,
                 kbItems, genLog, retrLog, xvars, pvars, rvars, cvars>>

\* the generator is started without waiting for the retrieval call to return
IntentReply_Prefetch ==
  /\ pc = "await_intent"
  /\ \E reply \in GenerationReplies :
       /\ genLog' = Append(genLog, reply)
       /\ IF ~reply.ok
          THEN /\ failure' = [failure EXCEPT !.gen = "intent", !.err = reply.err]
               /\ response' = Failed(reply.err)
               /\ pc' = "done"
               /\ UNCHANGED <<intent_analysis, retrieved_context, genCalls, retrCalls, invoked>>
          ELSE LET a == analyze_intent(reply.text, user_message)
               IN IF a.raised
                  THEN /\ response' = Failed("ValueError")
                       /\ pc' = "done"
                       /\ UNCHANGED <<intent_analysis, retrieved_context, genCalls, retrCalls,
                                      invoked, failure>>
                  ELSE /\ intent_analysis' = a.val
                       /\ failure' = failure
                       /\ retrieved_context' = retrieved_context
                       /\ IF Truthy(Get(a.val, "requires_retrieval", Scalar("true")))
                          THEN /\ retrCalls' = Append(retrCalls,
                                      [query |-> Get(a.val, "retrieval_query", user_message),
                                       top_k |-> TopK])
                               /\ Step3(a.val, user_profile, request_type)
                          ELSE /\ retrCalls' = retrCalls
                               /\ Step3(a.val, user_profile, request_type)
  /\ UNCHANGED <<event, user_message, user_profile, request_type, kbItems, retrLog, xvars, pvars, rvars, cvars>>

\* the classification call returns or fails; steps 1 and 2 up to the next remote call
IntentReply ==
  /\ pc = "await_intent"
  /\ \E reply \in GenerationReplies :
       /\ genLog' = Append(genLog, reply)
       /\ IF ~reply.ok
          THEN /\ failure' = [failure EXCEPT !.gen = "intent", !.err = reply.err]
               /\ response' = Failed(reply.err)
               /\ pc' = "done"
               /\ UNCHANGED <<intent_analysis, retrieved_context, genCalls, retrCalls, invoked>>
          ELSE LET a == analyze_intent(reply.text, user_message)
               IN IF a.raised
                  THEN /\ response' = Failed("ValueError")
                       /\ pc' = "done"
                       /\ UNCHANGED <<intent_analysis, retrieved_context, genCalls, retrCalls,
                                      invoked, failure>>
                  ELSE /\ intent_analysis' = a.val
                       /\ failure' = failure
                       /\ retrieved_context' = retrieved_context
                       /\ IF Truthy(Get(a.val, "requires_retrieval", Scalar("true")))
                          THEN /\ retrCalls' = Append(retrCalls,
                                      [query |-> Get(a.val, "retrieval_query", user_message),
                                       top_k |-> TopK])
                               /\ pc' = "await_retrieve"
                               /\ UNCHANGED <<genCalls, invoked, response>>
                          ELSE /\ retrCalls' = retrCalls
                               /\ Step3(a.val, user_profile, request_type)
  /\ UNCHANGED <<event, user_message, user_profile, request_type, kbItems, retrLog, xvars, pvars, rvars, cvars>>

\* a failed retrieval call is issued once more
RetrieveReply_Retry ==
  /\ pc = "await_retrieve"
  /\ \E reply \in RetrievalReplies(retrCalls[Len(retrCalls)].query) :
       /\ retrLog' = Append(retrLog, reply.ok)
       /\ IF ~reply.ok /\ Len(retrCalls) < 2
          THEN /\ retrCalls' = Append(retrCalls, retrCalls[Len(retrCalls)])
               /\ UNCHANGED <<retrieved_context, failure, kbItems, pc, invoked, genCalls,
                              response>>
          ELSE /\ retrieved_context' = retrieve_context(reply)
               /\ failure' = [failure EXCEPT !.retr = ~reply.ok]
               /\ kbItems' = reply.items
               /\ retrCalls' = retrCalls
               /\ Step3(intent_analysis, user_profile, request_type)
  /\ UNCHANGED <<event, user_message, user_profile, request_type, intent_analysis,
                 genLog, xvars, pvars, rvars, cvars>>

\* the retrieval call returns or fails; step 3 up to the generator's call
RetrieveReply ==
  /\ pc = "await_retrieve"
  /\ \E reply \in RetrievalReplies(retrCalls[Len(retrCalls)].query) :
       /\ retrieved_context' = retrieve_context(reply)
       /\ failure' = [failure EXCEPT !.retr = ~reply.ok]
       /\ kbItems' = reply.items
       /\ retrLog' = Append(retrLog, reply.ok)
  /\ Step3(intent_analysis, user_profile, request_type)
  /\ UNCHANGED <<event, user_message, user_profile, request_type, intent_analysis, retrCalls,
                 genLog, xvars, pvars, rvars, cvars>>

\* a failed generator call is issued once more
GenerateReply_Retry ==
  /\ pc = "await_generate"
  /\ \E reply \in GenerationReplies, now \in Clock :
       /\ genLog' = Append(genLog, reply)
       /\ IF ~reply.ok /\ Len(genCalls) < 3
          THEN /\ failure' = failure
               /\ response' = response
               /\ genCalls' = Append(genCalls, genCalls[Len(genCalls)])
               /\ pc' = pc
          ELSE /\ genCalls' = genCalls
               /\ pc' = "done"
               /\ IF ~reply.ok
                  THEN /\ failure' = [failure EXCEPT !.gen = invoked[Len(invoked)],
                                                     !.err = reply.err]
                       /\ response' = Failed(reply.err)
                  ELSE /\ failure' = failure
                       /\ response' = Succeeded([obj |-> Scalar(RawRef), raw |-> reply.text],
                                                "text", intent_analysis, retrieved_context, now)
  /\ UNCHANGED <<event, user_message, user_profile, request_type, intent_analysis,
                 retrieved_context, retrCalls, invoked, kbItems, retrLog, xvars, pvars, rvars, cvars>>

\* the generator's call returns or fails; the envelope is assembled
GenerateReply ==
  /\ pc = "await_generate"
  /\ \E reply \in GenerationReplies, now \in Clock :
       /\ genLog' = Append(genLog, reply)
       /\ IF ~reply.ok
          THEN /\ failure' = [failure EXCEPT !.gen = invoked[Len(invoked)], !.err = reply.err]
               /\ response' = Failed(reply.err)
          ELSE /\ failure' = failure
               /\ IF invoked[Len(invoked)] = "roadmap"
                  THEN LET roadmap == generate_career_roadmap(reply.text)
                       IN response' = IF roadmap.raised THEN Failed("ValueError")
                                      ELSE Succeeded(roadmap.val, "roadmap", intent_analysis,
                                                     retrieved_context, now)
                  ELSE response' = Succeeded([obj |-> Scalar(RawRef), raw |-> reply.text], "text",
                                             intent_analysis, retrieved_context, now)
  /\ pc' = "done"
  /\ UNCHANGED <<event, user_message, user_profile, request_type, intent_analysis,
                 retrieved_context, genCalls, retrCalls, invoked, kbItems, retrLog, xvars, pvars, rvars, cvars>>

Next == Receive \/ IntentReply \/ RetrieveReply \/ GenerateReply

Spec == Init /\ [][Next]_vars

\* the handler runs on, and every remote call returns or fails
Fairness ==
  /\ WF_vars(Receive)
  /\ WF_vars(IntentReply)
  /\ WF_vars(RetrieveReply)
  /\ WF_vars(GenerateReply)

SpecLive == Init /\ [][Next]_vars /\ Fairness

(***************************************************************************)
(* The extraction step on its own: every text of up to MaxLen lexemes is   *)
(* handed to the extraction of analyze_intent and generate_career_roadmap. *)
(***************************************************************************)
MaxLen == 5

Alphabet == {LB, RB, COMMA, W, Pair("intent", "ROADMAP"), Key("explainability")}

Texts == UNION {[1..n -> Alphabet] : n \in 0..MaxLen}

\* the places of t where a well-formed JSON object stands
ObjectSpans(t) ==
  {sp \in (1..Len(t)) \X (1..Len(t)) :
     /\ sp[1] <= sp[2]
     /\ t[sp[1]] = LB
     /\ JsonLoads(SubSeq(t, sp[1], sp[2])).ok}

InitExtract ==
  /\ pc = "extract"
  /\ event = [httpMethod |-> "POST", bodyKind |-> "absent", body |-> <<>>]
  /\ user_message \in {Scalar("hi"), Scalar("plan my career")}
  /\ user_profile = EmptyDict
  /\ request_type = Scalar("chat")
  /\ intent_analysis = {}
  /\ retrieved_context = <<>>
  /\ genCalls = <<>>
  /\ retrCalls = <<>>
  /\ invoked = <<>>
  /\ failure = NoFailure
  /\ kbItems = <<>>
  /\ genLog = <<>>
  /\ retrLog = <<>>
  /\ response = NoResponse
  /\ xtext \in Texts
  /\ xspan \in {<<0, 0>>} \cup ObjectSpans(xtext)
  /\ xresult = NoResult
  /\ PromptQuiet

\* lines 242-256 of analyze_intent applied to xtext
ExtractIntent ==
  /\ pc = "extract"
  /\ LET a == analyze_intent(xtext, user_message)
     IN xresult' = [stage |-> "analyze_intent", raised |-> a.raised,
                    val |-> [obj |-> a.val, raw |-> <<>>]]
  /\ pc' = "extracted"
  /\ UNCHANGED <<event, user_message, user_profile, request_type, intent_analysis,
                 retrieved_context, genCalls, retrCalls, invoked, failure, kbItems,
                 genLog, retrLog, response, xtext, xspan, pvars, rvars, cvars>>

\* lines 275-286 of generate_career_roadmap applied to xtext
ExtractRoadmap ==
  /\ pc = "extract"
  /\ LET r == generate_career_roadmap(xtext)
     IN xresult' = [stage |-> "generate_career_roadmap", raised |-> r.raised, val |-> r.val]
  /\ pc' = "extracted"
  /\ UNCHANGED <<event, user_message, user_profile, request_type, intent_analysis,
                 retrieved_context, genCalls, retrCalls, invoked, failure, kbItems,
                 genLog, retrLog, response, xtext, xspan, pvars, rvars, cvars>>

NextExtract == ExtractIntent \/ ExtractRoadmap

SpecExtract == InitExtract /\ [][NextExtract]_vars

(***************************************************************************)
(* Prompt building: lines 259-271 of generate_career_roadmap and lines     *)
(* 296-323 of generate_conversational_response.  A text is a sequence of   *)
(* glyphs: a piece of the format string, an interpolated string, or one    *)
(* character of a passage's content.                                       *)
(***************************************************************************)
RoadmapPassages == 5
ChatPassages == 3
ContentBudget == 500
HistoryTurns == 5

LongContentLen == 501
MaxPromptPassages == 6
MaxTurns == 6

T(s) == <<"t", s, 0>>
V(s) == <<"v", s, 0>>
Ch(c) == <<"c", "", c>>

\* the text of a string: an empty string has no glyphs
StrText(s) == IF s = "" THEN <<>> ELSE <<V(s)>>

CharText(content) == [i \in 1..Len(content) |-> Ch(content[i])]

\* the slice seq[:n]
FirstN_All(seq, n) == seq

FirstN(seq, n) == SubSeq(seq, 1, IF n < Len(seq) THEN n ELSE Len(seq))

\* the slice seq[:n] where seq[-n:] is meant
LastN_Head(seq, n) == SubSeq(seq, 1, IF n < Len(seq) THEN n ELSE Len(seq))

\* the slice seq[-n:]
LastN(seq, n) == SubSeq(seq, IF Len(seq) > n THEN Len(seq) - n + 1 ELSE 1, Len(seq))

\* sep.join(blocks)
RECURSIVE Join(_, _)
Join(sep, blocks) ==
  IF blocks = <<>> THEN <<>>
  ELSE IF Len(blocks) = 1 THEN blocks[1]
  ELSE blocks[1] \o sep \o Join(sep, Tail(blocks))

\* the section is left as the join made it
OrMarker_Blank(text, marker) == text

\* text if text else marker
OrMarker(text, marker) == IF text # <<>> THEN text ELSE <<T(marker)>>

\* lines 262-265: f"[Source: {source}]\n{content}" joined by a blank line
RoadmapContext(ctx) ==
  LET used == FirstN(ctx, RoadmapPassages)
  IN Join(<<T("\n\n")>>,
          [i \in 1..Len(used) |->
             <<T("[Source: ")>> \o StrText(used[i].source) \o <<T("]\n")>>
               \o CharText(used[i].content)])

\* lines 305-308: f"- {content[:500]}..." joined by a line break
ChatContext(ctx) ==
  LET used == FirstN(ctx, ChatPassages)
  IN Join(<<T("\n")>>,
          [i \in 1..Len(used) |->
             <<T("- ")>> \o CharText(FirstN(used[i].content, ContentBudget)) \o <<T("...")>>])

\* lines 311-316: f"{role}: {content}" of the last turns, "" without a history
HistoryText(history) ==
  LET used == LastN(history, HistoryTurns)
  IN Join(<<T("\n")>>,
          [i \in 1..Len(used) |->
             StrText(IF used[i].hasRole THEN used[i].role ELSE "user") \o <<T(": ")>>
               \o StrText(used[i].content)])

\* lines 297-302: the values interpolated into profile_summary
ProfileSummary(profile) ==
  [career_level |-> Get(profile, "career_level", Scalar("Not specified")),
   primary_domain |-> Get(profile, "primary_domain", Scalar("Not specified")),
   total_experience_years |-> Get(profile, "total_experience_years", Scalar("N/A")),
   technical |-> Get(Get(profile, "skills", EmptyDict), "technical", Scalar("[]"))]

\* lines 267-271: the arguments of CAREER_PLANNER_PROMPT.format
RoadmapPrompt(in) ==
  [template |-> "CAREER_PLANNER_PROMPT",
   profile |-> [dumps |-> in.profile],
   user_query |-> in.query,
   retrieved_context |-> OrMarker(RoadmapContext(in.ctx), "No specific context retrieved."),
   conversation_history |-> <<>>,
   max_tokens |-> 4096]

\* lines 318-325: the arguments of CONVERSATIONAL_PROMPT.format
ChatPrompt(in) ==
  [template |-> "CONVERSATIONAL_PROMPT",
   profile |-> ProfileSummary(in.profile),
   user_query |-> in.query,
   retrieved_context |-> OrMarker(ChatContext(in.ctx), "No specific context available."),
   conversation_history |->
     OrMarker(IF in.historyGiven /\ in.history # <<>> THEN HistoryText(in.history) ELSE <<>>,
              "No previous messages."),
   max_tokens |-> 2048]

\* passages as retrieve_context returns them
PromptPassages ==
  { Passage([hasText |-> TRUE, text |-> Content(LongContentLen), hasScore |-> TRUE,
             score |-> 50, hasUri |-> TRUE, uri |-> "s3://kb/jobs.json"]),
    Passage([hasText |-> TRUE, text |-> Content(3), hasScore |-> TRUE,
             score |-> 90, hasUri |-> TRUE, uri |-> "s3://kb/skills.json"]),
    Passage([hasText |-> FALSE, text |-> <<>>, hasScore |-> FALSE,
             score |-> 0, hasUri |-> FALSE, uri |-> ""]) }

PassageLists == UNION {[1..n -> PromptPassages] : n \in 0..MaxPromptPassages}

Turns ==
  { [hasRole |-> TRUE, role |-> "assistant", content |-> "hello"],
    [hasRole |-> FALSE, role |-> "", content |-> "hi"] }

Histories == UNION {[1..n -> Turns] : n \in 0..MaxTurns}

Profiles ==
  { EmptyDict,
    SetItem(EmptyDict, "career_level", Scalar("Senior")),
    Scalar("null") }

\* every passage list with two histories, and every history with two passage lists
PromptInputs ==
  { [profile |-> p, query |-> Scalar("hi"), ctx |-> c, historyGiven |-> TRUE, history |-> h] :
      p \in Profiles, c \in PassageLists,
      h \in {<<>>, [i \in 1..MaxTurns |-> CHOOSE t \in Turns : t.hasRole]} }
  \cup
  { [profile |-> EmptyDict, query |-> Scalar("plan my career"), ctx |-> c,
     historyGiven |-> TRUE, history |-> h] :
      c \in {<<>>, <<CHOOSE q \in PromptPassages : q.score = 90>>}, h \in Histories }
  \cup
  { [profile |-> EmptyDict, query |-> Scalar("hi"), ctx |-> c, historyGiven |-> FALSE,
     history |-> <<>>] :
      c \in {<<>>, <<CHOOSE q \in PromptPassages : q.score = 90>>} }

Raised == [template |-> "raised"]

\* the orchestrator's handler is not running and nothing is being extracted
HandlerQuiet ==
  /\ event = [httpMethod |-> "POST", bodyKind |-> "absent", body |-> <<>>]
  /\ user_message = Scalar("")
  /\ user_profile = EmptyDict
  /\ request_type = Scalar("chat")
  /\ intent_analysis = {}
  /\ retrieved_context = <<>>
  /\ genCalls = <<>>
  /\ retrCalls = <<>>
  /\ invoked = <<>>
  /\ failure = NoFailure
  /\ kbItems = <<>>
  /\ genLog = <<>>
  /\ retrLog = <<>>
  /\ response = NoResponse
  /\ xtext = <<>>
  /\ xspan = <<0, 0>>
  /\ xresult = NoResult

InitPrompt ==
  /\ pc = "prompt"
  /\ HandlerQuiet
  /\ pin \in PromptInputs
  /\ prompt = NoPrompt
  /\ rag = NoRag
  /\ frames = <<>>
  /\ module = ModuleState

\* generate_career_roadmap up to its generation call
BuildRoadmapPrompt ==
  /\ pc = "prompt"
  /\ prompt' = RoadmapPrompt(pin)
  /\ pc' = "built"
  /\ UNCHANGED <<hvars, xvars, pin, rvars, cvars>>

\* generate_conversational_response up to its generation call
BuildChatPrompt ==
  /\ pc = "prompt"
  /\ prompt' = IF ConversationalRaises(pin.profile) THEN Raised ELSE ChatPrompt(pin)
  /\ pc' = "built"
  /\ UNCHANGED <<hvars, xvars, pin, rvars, cvars>>

NextPrompt == BuildRoadmapPrompt \/ BuildChatPrompt

SpecPrompt == InitPrompt /\ [][NextPrompt]_vars

(***************************************************************************)
(* The rag-retriever: src/backend/lambda/rag-retriever/handler.py.  An     *)
(* invocation is the record rag; it stops at the knowledge base's retrieve *)
(* call and resumes with the reply.                                        *)
(***************************************************************************)
\* KNOWLEDGE_BASE_ID as pieces of text, so that the test 'PLACEHOLDER' in
\* KNOWLEDGE_BASE_ID is a search and not an equality
DefaultKbId == <<"PLACEHOLDER", "_KB_ID">>
ConfiguredKbId == <<"KB12345678">>
KnowledgeBaseIds == {DefaultKbId, ConfiguredKbId, <<"STAGING_", "PLACEHOLDER">>}

HasPlaceholder(id) == \E i \in 1..Len(id) : id[i] = "PLACEHOLDER"

RagBodyTexts ==
  { <<LB, RB>>,
    <<LB, Pair("query", "data jobs"), RB>>,
    <<LB, Pair("query", "data jobs"), COMMA, Pair("top_k", "3"), RB>>,
    <<LB, Key("user_profile"), LB, Pair("career_level", "Senior"), RB, RB>>,
    <<LB, Pair("query", ""), COMMA, Pair("user_profile", "resume text"), RB>>,
    <<LB, Pair("query", "null"), COMMA, Key("user_profile"), LB, Pair("skills", "python"), RB, RB>>,
    <<W>> }

RagEvents ==
  {[httpMethod |-> m, bodyKind |-> "text", body |-> b] :
     m \in {"POST", "OPTIONS"}, b \in RagBodyTexts}
  \cup {[httpMethod |-> "POST", bodyKind |-> "absent", body |-> <<>>]}

\* a document text and the keywords categorize_results finds in it
Documents ==
  { [text |-> "Open position: data engineer", words |-> {"position"}],
    [text |-> "A tutorial on the skill of SQL", words |-> {"skill", "tutorial"}],
    [text |-> "This position requires the skill of Python", words |-> {"position", "skill"}],
    [text |-> "Get certified with this learning plan", words |-> {"learning", "certified"}],
    [text |-> "", words |-> {}] }

DocWith(words) == CHOOSE d \in Documents : d.words = words

\* items of retrievalResults: a location may be missing, or name an S3 object
\* or a web page; the metadata's type may be missing, a text or a number
RagItems ==
  { [doc |-> DocWith({"position"}), score |-> 80, docType |-> "", typeIsText |-> TRUE,
     location |-> "s3", uri |-> "s3://kb/jobs.json"],
    [doc |-> DocWith({"skill", "tutorial"}), score |-> 60, docType |-> "certification",
     typeIsText |-> TRUE, location |-> "web", uri |-> "https://kb/sql"],
    [doc |-> DocWith({"position", "skill"}), score |-> 70, docType |-> "course",
     typeIsText |-> TRUE, location |-> "s3", uri |-> "s3://kb/python.json"],
    [doc |-> DocWith({"learning", "certified"}), score |-> 40, docType |-> "",
     typeIsText |-> TRUE, location |-> "none", uri |-> ""],
    [doc |-> DocWith({}), score |-> 30, docType |-> "certification", typeIsText |-> TRUE,
     location |-> "none", uri |-> ""],
    [doc |-> DocWith({}), score |-> 20, docType |-> "7", typeIsText |-> FALSE,
     location |-> "none", uri |-> ""],
    [doc |-> DocWith({}), score |-> 0, docType |-> "", typeIsText |-> TRUE,
     location |-> "none", uri |-> ""] }

MaxRagItems == 2

RetrievalErrors == {"ResourceNotFoundException", "ThrottlingException"}

RagReplies ==
  {[ok |-> TRUE, items |-> r, err |-> ""] :
     r \in UNION {[1..n -> RagItems] : n \in 0..MaxRagItems}}
  \cup {[ok |-> FALSE, items |-> <<>>, err |-> e] : e \in RetrievalErrors}

\* lines 73-87: one entry of results
RagResult(item) ==
  [content |-> item.doc, score |-> item.score, metadata |-> item.docType,
   typeIsText |-> item.typeIsText,
   hasSourceUrl |-> item.location # "none",
   source_url |-> IF item.location = "none" THEN "" ELSE item.uri]

\* lines 96-101: the passage returned when the knowledge base is not set up
Sentinel ==
  [content |-> [text |-> "Knowledge Base not configured. Please set up the Bedrock Knowledge Base.",
                words |-> {}],
   score |-> 0, metadata |-> "system", typeIsText |-> TRUE, hasSourceUrl |-> TRUE,
   source_url |-> ""]

\* the failure is swallowed whatever the identifier, and nothing is returned
retrieve_from_knowledge_base_Empty(id, reply) ==
  IF reply.ok
  THEN [raised |-> FALSE, err |-> "",
        results |-> [i \in 1..Len(reply.items) |-> RagResult(reply.items[i])]]
  ELSE [raised |-> FALSE, err |-> "", results |-> <<>>]

\* retrieve_from_knowledge_base, lines 55-102, given the reply of the retrieve call
retrieve_from_knowledge_base(id, reply) ==
  IF reply.ok
  THEN [raised |-> FALSE, err |-> "",
        results |-> [i \in 1..Len(reply.items) |-> RagResult(reply.items[i])]]
  ELSE IF HasPlaceholder(id)
  THEN [raised |-> FALSE, err |-> "", results |-> <<Sentinel>>]
  ELSE [raised |-> TRUE, err |-> reply.err, results |-> <<>>]

\* the rule for skills tried before the rule for job postings
Category_SkillsFirst(result) ==
  LET words == result.content.words
      doc_type == result.metadata
  IN IF doc_type = "skill" \/ "skill" \in words THEN "skills"
     ELSE IF doc_type = "job" \/ "job posting" \in words \/ "position" \in words
     THEN "job_postings"
     ELSE IF doc_type = "course" \/ "learning" \in words \/ "tutorial" \in words
     THEN "learning_resources"
     ELSE IF doc_type = "certification" \/ "certified" \in words THEN "certifications"
     ELSE "other"

\* line 119: metadata.get('type', '').lower() raises on a type that is not a text
CategorizeRaises(results) == \E i \in 1..Len(results) : ~results[i].typeIsText

\* lines 121-130: the first matching category
Category(result) ==
  LET words == result.content.words
      doc_type == result.metadata
  IN IF doc_type = "job" \/ "job posting" \in words \/ "position" \in words
     THEN "job_postings"
     ELSE IF doc_type = "skill" \/ "skill" \in words THEN "skills"
     ELSE IF doc_type = "course" \/ "learning" \in words \/ "tutorial" \in words
     THEN "learning_resources"
     ELSE IF doc_type = "certification" \/ "certified" \in words THEN "certifications"
     ELSE "other"

Categories == {"job_postings", "skills", "learning_resources", "certifications", "other"}

\* categorize_results, lines 105-132
categorize_results(results) ==
  [c \in Categories |-> SelectSeq(results, LAMBDA r : Category(r) = c)]

\* format_retrieval_query raises when it reads a profile that is not a mapping
FormatRaises(profile, query) ==
  /\ ~Truthy(query)
  /\ \/ ~IsDict(profile)
     \/ ~IsDict(Get(profile, "skills", EmptyDict))

\* format_retrieval_query, lines 35-52: the query, or the template's arguments
format_retrieval_query(profile, query) ==
  IF Truthy(query)
  THEN [template |-> "", query |-> query, summary |-> Scalar(""),
        career_goals |-> Scalar(""), experience_level |-> Scalar("")]
  ELSE [template |-> "RETRIEVAL_QUERY_TEMPLATE", query |-> Scalar(""),
        summary |-> Get(profile, "summary", Scalar("Not provided")),
        career_goals |-> Get(profile, "career_goals", Scalar("Career advancement")),
        experience_level |-> Get(profile, "career_level", Scalar("Not specified"))]

NoQuery == format_retrieval_query(EmptyDict, Scalar("none"))

\* lines 158-167
RagBadRequest ==
  [statusCode |-> 400, headers |-> "json",
   body |-> [error |-> "Provide either query or user_profile"]]

\* lines 206-216
RagFailed(e) ==
  [statusCode |-> 500, headers |-> "json",
   body |-> [error |-> e, message |-> "Failed to retrieve from knowledge base"]]

\* lines 178-199
RagSucceeded(id, retrieval_query, top_k, raw_results, now) ==
  [statusCode |-> 200, headers |-> "json",
   body |-> [query |-> retrieval_query,
             total_results |-> Len(raw_results),
             results |-> raw_results,
             categorized |-> categorize_results(raw_results),
             explainability |->
               [knowledge_base_id |-> id, retrieval_method |-> "HYBRID", top_k |-> top_k,
                sources |-> LET cited == SelectSeq(raw_results,
                                           LAMBDA r : r.hasSourceUrl /\ r.source_url # "")
                            IN [i \in 1..Len(cited) |-> cited[i].source_url]],
             retrieved_at |-> now]]

NoReply == [ok |-> TRUE, items |-> <<>>, err |-> "none"]

InitRag ==
  /\ pc = "rag"
  /\ HandlerQuiet
  /\ pin = NoInput
  /\ prompt = NoPrompt
  /\ frames = <<>>
  /\ module = ModuleState
  /\ rag \in {[pc |-> "idle", kbId |-> id, event |-> ev, retrieval_query |-> NoQuery,
               top_k |-> Scalar(""), calls |-> <<>>, reply |-> NoReply,
               raw_results |-> <<>>, response |-> NoResponse] :
                id \in KnowledgeBaseIds, ev \in RagEvents}

\* lambda_handler of the rag-retriever from entry to the retrieve call
RagReceive ==
  /\ rag.pc = "idle"
  /\ LET text == IF rag.event.bodyKind = "absent" THEN <<LB, RB>> ELSE rag.event.body
         body == JsonLoads(text)
         query == Get(body.val, "query", Scalar("null"))
         profile == Get(body.val, "user_profile", EmptyDict)
         top_k == Get(body.val, "top_k", Scalar("10"))
         done(resp) == rag' = [rag EXCEPT !.pc = "done", !.response = resp]
     IN IF rag.event.httpMethod = "OPTIONS" THEN done(Preflight)
        ELSE IF ~body.ok THEN done(RagFailed("JSONDecodeError"))
        ELSE IF ~IsDict(body.val) THEN done(RagFailed("AttributeError"))
        ELSE IF ~Truthy(query) /\ ~Truthy(profile) THEN done(RagBadRequest)
        ELSE IF FormatRaises(profile, query) THEN done(RagFailed("AttributeError"))
        ELSE rag' = [rag EXCEPT !.pc = "await_retrieve",
                                !.retrieval_query = format_retrieval_query(profile, query),
                                !.top_k = top_k,
                                !.calls = Append(@, [knowledgeBaseId |-> rag.kbId,
                                                     numberOfResults |-> top_k])]
  /\ UNCHANGED <<pc, hvars, xvars, pvars, cvars>>

\* lambda_handler of the rag-retriever from the reply of the retrieve call on
RagRetrieveReply ==
  /\ rag.pc = "await_retrieve"
  /\ \E reply \in RagReplies, now \in Clock :
       LET got == retrieve_from_knowledge_base(rag.kbId, reply)
       IN rag' = [rag EXCEPT
                    !.pc = "done",
                    !.reply = reply,
                    !.raw_results = got.results,
                    !.response =
                      IF got.raised THEN RagFailed(got.err)
                      ELSE IF CategorizeRaises(got.results) THEN RagFailed("AttributeError")
                      ELSE RagSucceeded(rag.kbId, rag.retrieval_query, rag.top_k,
                                        got.results, now)]
  /\ UNCHANGED <<pc, hvars, xvars, pvars, cvars>>

NextRag == RagReceive \/ RagRetrieveReply

SpecRag == InitRag /\ [][NextRag]_vars

(***************************************************************************)
(* Two invocations of the orchestrator's lambda_handler in progress at     *)
(* once.  frames[r] holds the local variables of invocation r (lines       *)
(* 345-403); module holds the names bound at import (lines 13-20), the     *)
(* only state the invocations have in common.  A step is one stage of one  *)
(* invocation, as in Receive, IntentReply, RetrieveReply and GenerateReply.*)
(***************************************************************************)
Requests == {1, 2}

ConcBodies ==
  { <<LB, RB>>,
    <<LB, Pair("message", "hi"), RB>>,
    <<LB, Pair("message", "plan my career"), COMMA, Pair("type", "roadmap"), RB>> }

ConcGenerationReplies ==
  {[ok |-> TRUE, text |-> t, err |-> ""] :
     t \in { <<W, W>>,
             <<W, LB, Pair("intent", "ROADMAP"), RB, W>>,
             <<LB, Pair("intent", "CAREER_ADVICE"), COMMA,
               Pair("requires_retrieval", "false"), RB>> }}
  \cup {[ok |-> FALSE, text |-> <<>>, err |-> "ThrottlingException"]}

ConcRetrievalReplies ==
  {[ok |-> FALSE, items |-> <<>>]}
  \cup {[ok |-> TRUE, items |-> <<i>>] : i \in {x \in RawItems : Len(x.text) <= 3}}

\* the locals of lambda_handler on entry
NewFrame(b) ==
  [pc |-> "idle", body |-> b, user_message |-> Scalar(""), user_profile |-> EmptyDict,
   request_type |-> Scalar("chat"), intent_analysis |-> {}, retrieved_context |-> <<>>,
   invoked |-> "", genLog |-> <<>>, retrLog |-> <<>>, response |-> NoResponse]

\* lines 345-364 on a frame
ReceiveF(f) ==
  LET body == JsonLoads(f.body)
      message == Get(body.val, "message", Scalar(""))
  IN IF ~body.ok THEN [f EXCEPT !.pc = "done", !.response = Failed("JSONDecodeError")]
     ELSE IF ~IsDict(body.val)
     THEN [f EXCEPT !.pc = "done", !.response = Failed("AttributeError")]
     ELSE LET g == [f EXCEPT !.user_message = message,
                             !.user_profile = Get(body.val, "user_profile", EmptyDict),
                             !.request_type = Get(body.val, "type", Scalar("chat"))]
          IN IF ~Truthy(message)
             THEN [g EXCEPT !.pc = "done", !.response = MissingMessage]
             ELSE [g EXCEPT !.pc = "await_intent"]

\* lines 372-387 on a frame, up to the generator's generation call
Step3F(f) ==
  IF WantsRoadmap(f.request_type, f.intent_analysis)
  THEN [f EXCEPT !.invoked = "roadmap", !.pc = "await_generate"]
  ELSE IF ConversationalRaises(f.user_profile)
  THEN [f EXCEPT !.invoked = "conversational", !.pc = "done",
                 !.response = Failed("AttributeError")]
  ELSE [f EXCEPT !.invoked = "conversational", !.pc = "await_generate"]

\* lines 240-256 and 366-370 on a frame
IntentReplyF(f, reply) ==
  LET g == [f EXCEPT !.genLog = Append(@, reply)]
      a == analyze_intent(reply.text, f.user_message)
  IN IF ~reply.ok THEN [g EXCEPT !.pc = "done", !.response = Failed(reply.err)]
     ELSE IF a.raised THEN [g EXCEPT !.pc = "done", !.response = Failed("ValueError")]
     ELSE IF Truthy(Get(a.val, "requires_retrieval", Scalar("true")))
     THEN [g EXCEPT !.intent_analysis = a.val, !.pc = "await_retrieve"]
     ELSE Step3F([g EXCEPT !.intent_analysis = a.val])

\* line 370 on a frame, then step 3
RetrieveReplyF(f, reply) ==
  Step3F([f EXCEPT !.retrieved_context = retrieve_context(reply),
                   !.retrLog = Append(@, reply)])

\* lines 273-286 or 325, then lines 390-412, on a frame
GenerateReplyF(f, reply, now) ==
  LET g == [f EXCEPT !.genLog = Append(@, reply), !.pc = "done"]
      roadmap == generate_career_roadmap(reply.text)
  IN IF ~reply.ok THEN [g EXCEPT !.response = Failed(reply.err)]
     ELSE IF f.invoked = "roadmap"
     THEN [g EXCEPT !.response =
             IF roadmap.raised THEN Failed("ValueError")
             ELSE Succeeded(roadmap.val, "roadmap", f.intent_analysis,
                            f.retrieved_context, now)]
     ELSE [g EXCEPT !.response =
             Succeeded([obj |-> Scalar(RawRef), raw |-> reply.text], "text",
                       f.intent_analysis, f.retrieved_context, now)]

InitConc ==
  /\ pc = "conc"
  /\ HandlerQuiet
  /\ pin = NoInput
  /\ prompt = NoPrompt
  /\ rag = NoRag
  /\ module = ModuleState
  /\ frames \in [Requests -> {NewFrame(b) : b \in ConcBodies}]

ConcReceive(r) ==
  /\ frames[r].pc = "idle"
  /\ frames' = [frames EXCEPT ![r] = ReceiveF(frames[r])]
  /\ UNCHANGED <<pc, hvars, xvars, pvars, rvars, module>>

ConcIntentReply(r) ==
  /\ frames[r].pc = "await_intent"
  /\ \E reply \in ConcGenerationReplies :
       frames' = [frames EXCEPT ![r] = IntentReplyF(frames[r], reply)]
  /\ UNCHANGED <<pc, hvars, xvars, pvars, rvars, module>>

\* retrieved_context kept in a module-level list that every invocation reads
ConcRetrieveReply_Shared(r) ==
  /\ frames[r].pc = "await_retrieve"
  /\ \E reply \in ConcRetrievalReplies :
       frames' = [q \in Requests |->
                    IF q = r THEN RetrieveReplyF(frames[r], reply)
                    ELSE [frames[q] EXCEPT !.retrieved_context = retrieve_context(reply)]]
  /\ UNCHANGED <<pc, hvars, xvars, pvars, rvars, module>>

ConcRetrieveReply(r) ==
  /\ frames[r].pc = "await_retrieve"
  /\ \E reply \in ConcRetrievalReplies :
       frames' = [frames EXCEPT ![r] = RetrieveReplyF(frames[r], reply)]
  /\ UNCHANGED <<pc, hvars, xvars, pvars, rvars, module>>

ConcGenerateReply(r) ==
  /\ frames[r].pc = "await_generate"
  /\ \E reply \in ConcGenerationReplies, now \in Clock :
       frames' = [frames EXCEPT ![r] = GenerateReplyF(frames[r], reply, now)]
  /\ UNCHANGED <<pc, hvars, xvars, pvars, rvars, module>>

NextConc ==
  \E r \in Requests :
    ConcReceive(r) \/ ConcIntentReply(r) \/ ConcRetrieveReply(r) \/ ConcGenerateReply(r)

SpecConc == InitConc /\ [][NextConc]_vars

(***************************************************************************)
(* Properties                                                              *)
(***************************************************************************)
Min(a, b) == IF a < b THEN a ELSE b

\* the request body as lambda_handler decodes it
BodyOf(ev) == JsonLoads(IF ev.bodyKind = "absent" THEN <<LB, RB>> ELSE ev.body)

\* a POST whose body is an object with no 'message' or an empty one
MessageMissing(ev) ==
  /\ ev.httpMethod = "POST"
  /\ ev.bodyKind # "null"
  /\ BodyOf(ev).ok
  /\ IsDict(BodyOf(ev).val)
  /\ \/ ~HasKey(BodyOf(ev).val, "message")
     \/ Get(BodyOf(ev).val, "message", Scalar("")) = Scalar("")

Success == pc = "done" /\ response.statusCode = 200 /\ response.headers = "json"

\* C1: a POST whose body has no 'message' field or an empty one is answered
\* 400 {error: "Missing message"}, and neither the generation client nor the
\* retrieval client is called at any point of the request.
C1_MissingMessage ==
  MessageMissing(event) =>
    /\ genCalls = <<>>
    /\ retrCalls = <<>>
    /\ pc = "done" => /\ response.statusCode = 400
                      /\ response.body = [error |-> "Missing message"]

C1_Witness ==
  /\ pc = "done"
  /\ MessageMissing(event)
  /\ HasKey(BodyOf(event).val, "message")
  /\ response.statusCode = 400

\* C2: once the request has passed validation and the classification call has
\* returned, exactly one generator is invoked: the roadmap generator if the
\* request type is "roadmap" or the classified intent is ROADMAP, the
\* conversational responder otherwise.
C2_ExactlyOneGenerator ==
  /\ Len(invoked) <= 1
  /\ (pc \in {"await_generate", "done"} /\ genCalls # <<>> /\ failure.gen # "intent") =>
       invoked = << IF \/ Get(BodyOf(event).val, "type", Scalar("chat")) = Scalar("roadmap")
                       \/ Get(intent_analysis, "intent", Scalar("null")) = Scalar("ROADMAP")
                    THEN "roadmap" ELSE "conversational" >>

C2_Witness ==
  /\ Success
  /\ Get(BodyOf(event).val, "type", Scalar("chat")) = Scalar("chat")
  /\ Get(intent_analysis, "intent", Scalar("null")) = Scalar("ROADMAP")
  /\ invoked = <<"roadmap">>

\* C3 as stated: whenever the retrieval call fails, the response is the 200
\* envelope with a type of "roadmap" or "text", a response and empty sources.
C3_Original ==
  (pc = "done" /\ failure.retr) =>
    /\ response.statusCode = 200
    /\ response.body.type \in {"roadmap", "text"}
    /\ "response" \in DOMAIN response.body
    /\ response.body.sources = <<>>

\* C3 amended: a failed retrieval call does not abort the request: the chosen
\* generator is still invoked, with an empty passage set, and whenever that
\* generator's generation call returns the response is the 200 envelope with
\* a type of "roadmap" or "text", a response and empty sources.
C3_RetrievalFailureNotFatal ==
  failure.retr =>
    /\ retrieved_context = <<>>
    /\ pc \in {"await_generate", "done"}
    /\ Len(invoked) = 1
    /\ (pc = "done" /\ Len(genCalls) = 2 /\ failure.gen = "") =>
         /\ response.statusCode = 200
         /\ response.body.type \in {"roadmap", "text"}
         /\ "response" \in DOMAIN response.body
         /\ response.body.sources = <<>>

C3_Witness ==
  /\ Success
  /\ failure.retr
  /\ retrCalls # <<>>
  /\ response.body.sources = <<>>

\* t holds no "{" followed later by a "}"
NoBraceSpan(t) ==
  ~ \E i \in 1..Len(t), j \in 1..Len(t) : i < j /\ t[i] = LB /\ t[j] = RB

\* the part of t from its first "{" to its last "}"
OuterSpan(t) ==
  LET lo == CHOOSE i \in 1..Len(t) : t[i] = LB /\ \A k \in 1..(i - 1) : t[k] # LB
      hi == CHOOSE j \in 1..Len(t) : t[j] = RB /\ \A k \in (j + 1)..Len(t) : t[k] # RB
  IN SubSeq(t, lo, hi)

\* C4: for a model output that holds no '{...}' span, or whose span from the
\* first '{' to the last '}' is not valid JSON, the extraction of
\* analyze_intent and of generate_career_roadmap returns exactly the
\* fallback and does not raise.
C4_FallbackOnMalformed ==
  (pc = "extracted" /\ (NoBraceSpan(xtext) \/ ~JsonLoads(OuterSpan(xtext)).ok)) =>
    /\ ~xresult.raised
    /\ xresult.stage = "analyze_intent" =>
         xresult.val.obj = {<<(<<"intent">>), "GENERAL_CHAT">>, <<(<<"confidence">>), "0.5">>,
                            <<(<<"requires_retrieval">>), "true">>}
                           \cup Prefix("retrieval_query", user_message)
    /\ xresult.stage = "generate_career_roadmap" =>
         /\ xresult.val.raw = xtext
         /\ xresult.val.obj = {<<(<<"response">>), RawRef>>, <<(<<"type">>), "text">>}

C4_Witness ==
  /\ pc = "extracted"
  /\ ~NoBraceSpan(xtext)
  /\ ~JsonLoads(OuterSpan(xtext)).ok
  /\ xresult.stage = "generate_career_roadmap"
  /\ xresult.val.raw = xtext

\* C5 as stated: a well-formed JSON object embedded anywhere in prose, also
\* prose that holds '{' or '}', is extracted exactly.
C5_Original ==
  (pc = "extracted" /\ xspan # <<0, 0>>) =>
    /\ ~xresult.raised
    /\ xresult.val.obj = JsonLoads(SubSeq(xtext, xspan[1], xspan[2])).val

\* the prose before the object holds no "{" and the prose after it no "}"
ProseClean ==
  /\ \A i \in 1..(xspan[1] - 1) : xtext[i] # LB
  /\ \A j \in (xspan[2] + 1)..Len(xtext) : xtext[j] # RB

\* C5 amended: a well-formed JSON object embedded in prose is extracted
\* exactly, whatever the prose, provided the prose before it holds no '{'
\* and the prose after it holds no '}'.
C5_ExtractEmbedded ==
  (pc = "extracted" /\ xspan # <<0, 0>> /\ ProseClean) =>
    /\ ~xresult.raised
    /\ xresult.val.obj = JsonLoads(SubSeq(xtext, xspan[1], xspan[2])).val

C5_Witness ==
  /\ pc = "extracted"
  /\ xspan # <<0, 0>>
  /\ ProseClean
  /\ xspan[1] > 1
  /\ xspan[2] < Len(xtext)
  /\ xspan[2] > xspan[1] + 1
  /\ xresult.val.obj = JsonLoads(SubSeq(xtext, xspan[1], xspan[2])).val

\* C6: a failed generation call, at whichever stage, is fatal: the handler
\* answers 500 {error: <message>, message: "Agent orchestration failed"},
\* and no later stage or remote call runs.
C6_GenerationFailureFatal ==
  /\ [](failure.gen # "" =>
          /\ pc = "done"
          /\ response.statusCode = 500
          /\ response.body = [error |-> failure.err, message |-> "Agent orchestration failed"]
          /\ genCalls[Len(genCalls)].stage = failure.gen
          /\ failure.gen = "intent" => Len(genCalls) = 1 /\ retrCalls = <<>> /\ invoked = <<>>
          /\ failure.gen # "intent" => Len(genCalls) = 2 /\ invoked = <<failure.gen>>)
  /\ [][failure.gen # "" => UNCHANGED <<genCalls, retrCalls, invoked, response>>]_vars

C6_Witness ==
  /\ pc = "done"
  /\ failure.gen = "roadmap"
  /\ retrCalls # <<>>
  /\ response.statusCode = 500

\* C7: every roadmap result that reaches the caller carries a non-empty
\* explainability block or is marked as the text fallback
\* {response: raw text, type: "text"}.
C7_ExplainabilityOrFallback ==
  (Success /\ invoked = <<"roadmap">>) =>
    LET r == response.body.response.obj
    IN \/ Truthy(Get(r, "explainability", EmptyDict))
       \/ Get(r, "type", Scalar("null")) = Scalar("text") /\ HasKey(r, "response")

Intents == {"CAREER_ADVICE", "SKILL_GAP", "JOB_SEARCH", "LEARNING_PATH", "ROADMAP", "GENERAL_CHAT"}

\* C8: in every 200 envelope intent.intent is one of the six intents.
C8_IntentEnumerated ==
  Success => Get(response.body.intent, "intent", Scalar("null")) \in {Scalar(i) : i \in Intents}

\* C9: in every 200 envelope 'sources' has min(3, number of passages) entries,
\* in the order the retrieval client returned the passages; entry i holds the
\* first 200 characters of passage i's content and passage i's source.
C9_SourcesPreview ==
  Success =>
    LET src == response.body.sources
    IN /\ Len(retrieved_context) = Len(kbItems)
       /\ Len(src) = Min(3, Len(kbItems))
       /\ \A i \in 1..Len(src) :
            LET c == retrieved_context[i].content
            IN /\ c = IF kbItems[i].hasText THEN kbItems[i].text ELSE <<>>
               /\ src[i] = [content |-> SubSeq(c, 1, Min(200, Len(c))),
                            source |-> retrieved_context[i].source]

C9_Witness ==
  /\ Success
  /\ Len(retrieved_context) > 3
  /\ Len(retrieved_context[1].content) < Len(retrieved_context[2].content)
  /\ Len(retrieved_context[2].content) > 200
  /\ retrieved_context[1].score > retrieved_context[2].score
  /\ Len(response.body.sources) = 3
  /\ Len(response.body.sources[2].content) = 200

\* C10: whenever requires_retrieval is true the retrieval client is called,
\* with the classifier's retrieval_query, or with the user message if that
\* is absent, null or empty.
C10_RetrievalQuery ==
  /\ (pc \in {"await_retrieve", "await_generate", "done"} /\ intent_analysis # {}
        /\ Get(intent_analysis, "requires_retrieval", Scalar("null")) = Scalar("true")) =>
       Len(retrCalls) = 1
  /\ retrCalls # <<>> =>
       LET q == Get(intent_analysis, "retrieval_query", Scalar("null"))
       IN retrCalls[1].query = IF q \in {Scalar("null"), Scalar("")} THEN user_message ELSE q

\* the extraction step cannot parse t
Unparsed(t) == NoBraceSpan(t) \/ ~JsonLoads(OuterSpan(t)).ok

\* C11: when the classification output cannot be parsed, the intent result
\* used by the orchestrator and put in the envelope is the fallback
\* {GENERAL_CHAT, 0.5, requires_retrieval true, retrieval_query = the user
\* message}; retrieval is called with the user message, and unless the
\* request type is "roadmap" the conversational responder is invoked.
C11_FallbackIntent ==
  (genLog # <<>> /\ genLog[1].ok /\ Unparsed(genLog[1].text)) =>
    LET msg == Get(BodyOf(event).val, "message", Scalar(""))
        fb == {<<(<<"intent">>), "GENERAL_CHAT">>, <<(<<"confidence">>), "0.5">>,
               <<(<<"requires_retrieval">>), "true">>} \cup Prefix("retrieval_query", msg)
    IN /\ intent_analysis = fb
       /\ retrCalls = <<[query |-> msg, top_k |-> 10]>>
       /\ pc \in {"await_retrieve", "await_generate", "done"}
       /\ pc # "await_retrieve" =>
            invoked = << IF Get(BodyOf(event).val, "type", Scalar("chat")) = Scalar("roadmap")
                         THEN "roadmap" ELSE "conversational" >>
       /\ Success => response.body.intent = fb

C11_Witness ==
  /\ Success
  /\ ~NoBraceSpan(genLog[1].text)
  /\ Unparsed(genLog[1].text)
  /\ invoked = <<"conversational">>
  /\ kbItems # <<>>

\* C12: a response that is not a success is either 400 {error: "Missing
\* message"} or 500 with exactly the two string fields error and message; it
\* holds no response, intent, sources or metadata.
C12_FailureShapes ==
  (pc = "done" /\ response.statusCode # 200) =>
    /\ \/ response.statusCode = 400 /\ response.body = [error |-> "Missing message"]
       \/ /\ response.statusCode = 500
          /\ DOMAIN response.body = {"error", "message"}
          /\ response.body.error \in STRING
          /\ response.body.message \in STRING
    /\ DOMAIN response.body \cap {"response", "intent", "sources", "metadata"} = {}

C12_Witness ==
  /\ pc = "done"
  /\ response.statusCode = 500
  /\ intent_analysis # {}
  /\ retrieved_context # <<>>

\* C13: no remote call is retried: the generation client is called at most
\* twice (classification, then the chosen generator), the retrieval client
\* at most once, and a call that has failed is never issued again.
C13_NoRetry ==
  /\ [](/\ Len(genCalls) <= 2
        /\ Len(retrCalls) <= 1
        /\ genCalls # <<>> => genCalls[1].stage = "intent"
        /\ Len(genCalls) = 2 => genCalls[2].stage \in {"roadmap", "conversational"})
  /\ [][(genLog' # genLog /\ ~genLog'[Len(genLog')].ok) => genCalls' = genCalls]_vars
  /\ [][failure.gen # "" => genCalls' = genCalls]_vars
  /\ [][(retrLog' # retrLog \/ retrLog # <<>>) => retrCalls' = retrCalls]_vars

C13_Witness ==
  /\ pc = "done"
  /\ failure.retr
  /\ failure.gen = "conversational"
  /\ Len(genCalls) = 2
  /\ Len(retrCalls) = 1

\* C14: the stages run in the order classify, retrieve, generate: the
\* retrieval call is issued only after the classification call has returned,
\* the generator's call only after retrieval has returned or been skipped,
\* and at most one remote call is outstanding at any time.
C14_StageOrder ==
  /\ (Len(genCalls) - Len(genLog)) + (Len(retrCalls) - Len(retrLog)) \in {0, 1}
  /\ retrCalls # <<>> => Len(genLog) >= 1 /\ genLog[1].ok
  /\ Len(genCalls) = 2 =>
       /\ Len(genLog) >= 1
       /\ genLog[1].ok
       /\ Len(retrLog) = Len(retrCalls)

C14_Witness ==
  /\ pc = "await_generate"
  /\ Len(retrLog) = 1
  /\ Len(genLog) = 1
  /\ Len(genCalls) = 2

\* how far a request has come: received, classified, answered
Rank(p) ==
  CASE p = "idle" -> 0
    [] p = "await_intent" -> 1
    [] p = "await_retrieve" -> 2
    [] p = "await_generate" -> 3
    [] p = "done" -> 4

\* a step that ends the request with an error
ErrorStep == Next /\ pc' = "done" /\ response'.statusCode \in {400, 500}

\* C18: provided every remote call returns or fails, every request reaches
\* one terminal outcome, a 200 or an error (400 or 500), moving only
\* forward; an error can end a POST request from every non-terminal state,
\* and a terminal state is never left.
C18_Terminates ==
  /\ <>(pc = "done")
  /\ [](pc = "done" <=> response.statusCode \in {200, 400, 500})
  /\ [](pc # "done" => response = NoResponse)
  /\ [][Rank(pc') > Rank(pc)]_vars
  /\ [][pc # "done"]_vars
  /\ [](pc \in {"await_intent", "await_generate"} => ENABLED ErrorStep)
  /\ [][(pc = "await_retrieve" \/ (pc = "idle" /\ event.httpMethod = "POST")) =>
          \/ pc' \in {"await_intent", "await_generate"}
          \/ pc' = "done" /\ response'.statusCode \in {400, 500}]_vars

C18_Witness ==
  /\ pc = "done"
  /\ response.statusCode = 200
  /\ Len(genLog) = 2
  /\ Len(retrLog) = 1

\* a prompt was built: the generator reached its generation call
Built == pc = "built" /\ prompt.template \in {"CAREER_PLANNER_PROMPT", "CONVERSATIONAL_PROMPT"}

ForRoadmap == prompt.template = "CAREER_PLANNER_PROMPT"

\* C15: the retrieved-context section of a built prompt is never empty; it is
\* the no-context marker of its generator exactly when the passage list is
\* empty, and otherwise it is rendered text that opens with a passage block.
C15_ContextNeverBlank ==
  Built =>
    /\ prompt.retrieved_context # <<>>
    /\ pin.ctx = <<>> <=>
         prompt.retrieved_context =
           <<T(IF ForRoadmap THEN "No specific context retrieved."
               ELSE "No specific context available.")>>
    /\ pin.ctx # <<>> =>
         Head(prompt.retrieved_context) = T(IF ForRoadmap THEN "[Source: " ELSE "- ")

C15_Witness ==
  /\ Built
  /\ ~ForRoadmap
  /\ pin.ctx = <<>>
  /\ prompt.retrieved_context = <<T("No specific context available.")>>

Glyphs(text, kind) == SelectSeq(text, LAMBDA g : g[1] = kind)

Count(text, glyph) == Len(SelectSeq(text, LAMBDA g : g = glyph))

RECURSIVE Concat(_)
Concat(seqs) == IF seqs = <<>> THEN <<>> ELSE Head(seqs) \o Concat(Tail(seqs))

\* where block i of the conversational context starts, each earlier block being
\* "- ", at most 500 characters, "..." and a line break
RECURSIVE BlockStart(_, _)
BlockStart(ctx, i) ==
  IF i = 1 THEN 1 ELSE BlockStart(ctx, i - 1) + Min(500, Len(ctx[i - 1].content)) + 3

\* C20: the context section is made of the first 5 passages (roadmap) or the
\* first 3 (conversational), in retrieval order; the roadmap section carries
\* each source and the whole content, the conversational section carries at
\* most the first 500 characters of each content, followed by an ellipsis.
C20_CappedPrefix ==
  (Built /\ pin.ctx # <<>>) =>
    LET ctx == pin.ctx
        section == prompt.retrieved_context
    IN IF ForRoadmap
       THEN LET k == Min(5, Len(ctx))
            IN /\ Count(section, T("[Source: ")) = k
               /\ Glyphs(section, "v") = [i \in 1..k |-> V(ctx[i].source)]
               /\ Glyphs(section, "c") = Concat([i \in 1..k |-> CharText(ctx[i].content)])
       ELSE LET k == Min(3, Len(ctx))
                cut(i) == Min(500, Len(ctx[i].content))
            IN /\ Len(section) = BlockStart(ctx, k) + cut(k) + 1
               /\ \A i \in 1..k :
                    LET at == BlockStart(ctx, i)
                    IN /\ section[at] = T("- ")
                       /\ SubSeq(section, at + 1, at + cut(i)) =
                            CharText(SubSeq(ctx[i].content, 1, cut(i)))
                       /\ section[at + cut(i) + 1] = T("...")

C20_Witness ==
  /\ Built
  /\ ~ForRoadmap
  /\ Len(pin.ctx) > 3
  /\ Len(pin.ctx[2].content) > 500
  /\ Count(prompt.retrieved_context, T("...")) = 3
  /\ Len(Glyphs(prompt.retrieved_context, "c")) = 500 + Len(pin.ctx[1].content) + Len(pin.ctx[3].content)
  /\ Len(pin.ctx[1].content) = 3


\* the retrieve call of the rag-retriever was made and failed
RetrieveFailed == rag.pc = "done" /\ rag.calls # <<>> /\ ~rag.reply.ok

OwnMessage(f) == Get(JsonLoads(f.body).val, "message", Scalar(""))

OwnType(f) == Get(JsonLoads(f.body).val, "type", Scalar("chat"))

OwnIntent(f) == analyze_intent(f.genLog[1].text, OwnMessage(f)).val

OwnPassages(f) == IF f.retrLog = <<>> THEN <<>> ELSE retrieve_context(f.retrLog[1])

OwnText(f) == f.genLog[Len(f.genLog)].text

Answered(f) == f.pc = "done" /\ f.response.statusCode = 200

\* C17: under every interleaving of the stages of two invocations, (1) the
\* envelope of an answered request is what its own body and the replies to
\* its own calls determine: intent, sources, type and response; (2) two
\* finished requests with the same body and the same replies have the same
\* envelope up to the timestamp; (3) a step changes the locals of one
\* invocation only; (4) the module-level names are never assigned.
C17_NoInterference ==
  /\ [](\A r \in Requests :
          LET f == frames[r]
          IN Answered(f) =>
               /\ f.response.body.intent = OwnIntent(f)
               /\ f.response.body.sources = Sources(OwnPassages(f))
               /\ f.response.body.type =
                    IF WantsRoadmap(OwnType(f), OwnIntent(f)) THEN "roadmap" ELSE "text"
               /\ f.response.body.response =
                    IF WantsRoadmap(OwnType(f), OwnIntent(f))
                    THEN generate_career_roadmap(OwnText(f)).val
                    ELSE [obj |-> Scalar(RawRef), raw |-> OwnText(f)])
  /\ [](\A r, q \in Requests :
          (/\ frames[r].pc = "done" /\ frames[q].pc = "done"
           /\ frames[r].body = frames[q].body
           /\ frames[r].genLog = frames[q].genLog
           /\ frames[r].retrLog = frames[q].retrLog) =>
            /\ frames[r].response.statusCode = frames[q].response.statusCode
            /\ frames[r].response.statusCode = 200 =>
                 \A k \in {"response", "type", "intent", "sources"} :
                   frames[r].response.body[k] = frames[q].response.body[k]
            /\ frames[r].response.statusCode # 200 =>
                 frames[r].response = frames[q].response)
  /\ [][\E r \in Requests : \A q \in Requests \ {r} : frames'[q] = frames[q]]_vars
  /\ [](module = ModuleState)

C17_Witness ==
  /\ Answered(frames[1])
  /\ frames[2].pc = "await_generate"
  /\ frames[1].retrLog # <<>> /\ frames[2].retrLog # <<>>
  /\ frames[1].retrieved_context # frames[2].retrieved_context
  /\ frames[1].intent_analysis # frames[2].intent_analysis
  /\ frames[1].response.body.sources = Sources(frames[1].retrieved_context)
  /\ frames[1].response.body.sources # Sources(frames[2].retrieved_context)


\* C21: in the context section of either generator every included passage is
\* a block '[Source: <id>]', a line break and the content, and consecutive
\* blocks are separated by a blank line.
C21_SourceBlocks ==
  (Built /\ pin.ctx # <<>>) =>
    LET section == prompt.retrieved_context
        heads == {i \in 1..Len(section) : section[i] = T("[Source: ")}
    IN /\ 1 \in heads
       /\ \A i \in heads :
            /\ i + 2 <= Len(section)
            /\ section[i + 1][1] = "v"
            /\ section[i + 2] = T("]\n")
            /\ i > 1 => section[i - 1] = T("\n\n")
       /\ Count(section, T("\n\n")) = Cardinality(heads) - 1
       /\ Cardinality(heads) = Min(Len(pin.ctx), IF ForRoadmap THEN 5 ELSE 3)


RECURSIVE TurnLines(_, _, _)
\* the 'role: content' lines of turns from..to of a history, a line break between
TurnLines(history, from, to) ==
  IF from > to THEN <<>>
  ELSE StrText(IF history[from].hasRole THEN history[from].role ELSE "user")
         \o <<T(": ")>> \o StrText(history[from].content)
         \o (IF from < to THEN <<T("\n")>> ELSE <<>>)
         \o TurnLines(history, from + 1, to)

\* C22: the history section of the conversational prompt holds the last 5
\* turns only, in their order, each as a 'role: content' line: of n turns
\* exactly min(n, 5) appear and the earlier ones are left out; an empty or
\* absent history gives the marker "No previous messages.".
C22_LastFiveTurns ==
  (Built /\ ~ForRoadmap) =>
    LET section == prompt.conversation_history
        n == Len(pin.history)
    IN IF ~pin.historyGiven \/ n = 0
       THEN section = <<T("No previous messages.")>>
       ELSE /\ Count(section, T(": ")) = Min(n, 5)
            /\ section = TurnLines(pin.history, n - Min(n, 5) + 1, n)

C22_Witness ==
  /\ Built
  /\ ~ForRoadmap
  /\ Len(pin.history) = 6
  /\ ~pin.history[1].hasRole
  /\ \A i \in 2..6 : pin.history[i].hasRole
  /\ Count(prompt.conversation_history, V("hi")) = 0
  /\ Count(prompt.conversation_history, V("hello")) = 5


\* the roadmap generator's generation call returned a text that is not a
\* structured object
RoadmapUnparsed ==
  /\ pc = "done"
  /\ invoked = <<"roadmap">>
  /\ Len(genLog) = 2
  /\ genLog[2].ok
  /\ Unparsed(genLog[2].text)

\* C23: when the roadmap generator's model output cannot be parsed,
\* generate_career_roadmap returns exactly {response: the raw text, type:
\* "text"} and the request ends with the 200 envelope carrying it.
C23_RoadmapFallback ==
  RoadmapUnparsed =>
    /\ response.statusCode = 200
    /\ response.body.response =
         [obj |-> {<<(<<"response">>), RawRef>>, <<(<<"type">>), "text">>},
          raw |-> genLog[2].text]

C23_Witness ==
  /\ RoadmapUnparsed
  /\ ~NoBraceSpan(genLog[2].text)
  /\ response.statusCode = 200
  /\ response.body.response.raw = genLog[2].text
  /\ kbItems # <<>>


\* the classification call returned and its result is in intent_analysis
Classified == intent_analysis # {} /\ genLog # <<>> /\ genLog[1].ok

\* C24: when the classifier's result has requires_retrieval false, the
\* retrieval client is not called in the request, the generator is started
\* with no passages, and the envelope's sources list is empty.
C24_NoRetrievalWhenOff ==
  (Classified /\ Get(intent_analysis, "requires_retrieval", Scalar("true")) = Scalar("false")) =>
    /\ retrCalls = <<>>
    /\ retrLog = <<>>
    /\ retrieved_context = <<>>
    /\ pc \in {"await_generate", "done"}
    /\ Success => response.body.sources = <<>>

C24_Witness ==
  /\ Success
  /\ Classified
  /\ HasKey(intent_analysis, "requires_retrieval")
  /\ Get(intent_analysis, "requires_retrieval", Scalar("true")) = Scalar("false")
  /\ Len(genCalls) = 2
  /\ response.body.sources = <<>>

\* C25: when the classifier's output parses as an object without a
\* requires_retrieval field, retrieval is taken as required: the retrieval
\* client is called, once, before any generator.
C25_RetrievalDefaultsOn ==
  (Classified /\ ~Unparsed(genLog[1].text) /\ ~HasKey(intent_analysis, "requires_retrieval")) =>
    /\ Len(retrCalls) = 1
    /\ retrCalls[1].query = Get(intent_analysis, "retrieval_query", Get(BodyOf(event).val, "message", Scalar("")))
    /\ pc \in {"await_retrieve", "await_generate", "done"}
    /\ pc # "await_retrieve" => Len(retrLog) = 1

C25_Witness ==
  /\ Success
  /\ Classified
  /\ ~Unparsed(genLog[1].text)
  /\ ~HasKey(intent_analysis, "requires_retrieval")
  /\ Len(retrCalls) = 1
  /\ retrLog = <<TRUE>>
  /\ response.body.sources # <<>>


\* C26: the envelope's type is the branch taken: "roadmap" exactly when the
\* roadmap generator was invoked and "text" exactly when the conversational
\* responder was; when the roadmap generator fell back to raw text the
\* envelope's type is still "roadmap" and the nested response has type "text".
C26_TypeIsBranch ==
  Success =>
    /\ response.body.type = "roadmap" <=> invoked = <<"roadmap">>
    /\ response.body.type = "text" <=> invoked = <<"conversational">>
    /\ (invoked = <<"roadmap">> /\ Unparsed(genLog[2].text)) =>
         /\ response.body.type = "roadmap"
         /\ Get(response.body.response.obj, "type", Scalar("")) = Scalar("text")

C26_Witness ==
  /\ Success
  /\ invoked = <<"roadmap">>
  /\ Unparsed(genLog[2].text)
  /\ response.body.type = "roadmap"
  /\ Get(response.body.response.obj, "type", Scalar("")) = Scalar("text")
  /\ request_type # Scalar("roadmap")

\* a request that is not a preflight and whose body text is not JSON
BadJson ==
  /\ event.httpMethod # "OPTIONS"
  /\ event.bodyKind = "text"
  /\ ~JsonLoads(event.body).ok

\* C27: a non-preflight request whose body is not parseable JSON ends in the
\* 500 failure envelope, not in the 400 of validation, and no generation or
\* retrieval call is made for it.
C27_BadJsonFails ==
  BadJson =>
    /\ genCalls = <<>>
    /\ retrCalls = <<>>
    /\ pc \in {"idle", "done"}
    /\ pc = "done" =>
         /\ response.statusCode = 500
         /\ response.body.message = "Agent orchestration failed"

C27_Witness ==
  /\ BadJson
  /\ pc = "done"
  /\ response.statusCode = 500
  /\ response.body.error = "JSONDecodeError"
  /\ event.body # <<>>
  /\ Head(event.body) = LB


\* the rules of categorize_results in their order of precedence
RuleOrder == <<"job_postings", "skills", "learning_resources", "certifications", "other">>

RuleHolds(c, r) ==
  LET words == r.content.words
  IN CASE c = "job_postings" ->
            r.metadata = "job" \/ "job posting" \in words \/ "position" \in words
       [] c = "skills" -> r.metadata = "skill" \/ "skill" \in words
       [] c = "learning_resources" ->
            r.metadata = "course" \/ "learning" \in words \/ "tutorial" \in words
       [] c = "certifications" -> r.metadata = "certification" \/ "certified" \in words
       [] OTHER -> TRUE

RECURSIVE SumLen(_, _)
SumLen(f, S) ==
  IF S = {} THEN 0 ELSE LET c == CHOOSE x \in S : TRUE IN Len(f[c]) + SumLen(f, S \ {c})

\* the rag-retriever answered with categorised results
Categorized == rag.pc = "done" /\ rag.calls # <<>> /\ rag.response.statusCode = 200

\* C28: categorize_results partitions its input over the five categories:
\* the sizes add up to the number of results, every member of a category
\* satisfies that category's rule and no earlier rule, and each category
\* lists its members in input order.
C28_Partition ==
  Categorized =>
    LET results == rag.response.body.results
        cat == rag.response.body.categorized
    IN /\ DOMAIN cat = {RuleOrder[i] : i \in 1..5}
       /\ SumLen(cat, DOMAIN cat) = Len(results)
       /\ \A i \in 1..5 : \A j \in 1..Len(cat[RuleOrder[i]]) :
            /\ RuleHolds(RuleOrder[i], cat[RuleOrder[i]][j])
            /\ \A k \in 1..(i - 1) : ~RuleHolds(RuleOrder[k], cat[RuleOrder[i]][j])
       /\ \A c \in DOMAIN cat :
            cat[c] = SelectSeq(results, LAMBDA r : \E j \in 1..Len(cat[c]) : cat[c][j] = r)

C28_Witness ==
  /\ Categorized
  /\ Len(rag.response.body.results) = 2
  /\ rag.response.body.results[1] # rag.response.body.results[2]
  /\ "skill" \in rag.response.body.results[1].content.words
  /\ rag.response.body.categorized["job_postings"] = rag.response.body.results

====
